---------------------------- MODULE Spec2Model ----------------------------
(***************************************************************************)
(* Model of the NABIP member seed-data scripts:                            *)
(*   scripts/generate_member_seed_data.py        (MemberGenerator)         *)
(*   scripts/generate_members_for_existing_schema.py                       *)
(*   scripts/import_to_supabase.py               (read_sql_file,           *)
(*                                                split_into_batches)      *)
(*   scripts/import_member_batches.py                                      *)
(*   .github/scripts/create_github_issues.py     (GitHubIssueCreator)      *)
(*                                                                         *)
(* The specifications of the module:                                       *)
(*   Spec       main(): a fresh MemberGenerator runs generate_members(N)   *)
(*   SpecEmail  generate_email called directly on one MemberGenerator      *)
(*   SpecInstances  the same, with a second MemberGenerator beside it      *)
(*   SpecDates  the date and CE-credit part of one generate_members        *)
(*              iteration, with the wall clock as state                    *)
(*   SpecBatch  SQL text is written, read_sql_file and split_into_batches  *)
(*              re-partition it                                            *)
(*   SpecStatus the status draw of generate_members iterations             *)
(*   SpecFiles  batch files are written by the generating scripts and read *)
(*              by scripts/import_member_batches.py in sorted order        *)
(*   SpecIssues a GitHubIssueCreator in dry-run or live mode               *)
(*   SpecMemberDates  joined_date and expiry_date of generate_member       *)
(* Each specification leaves the variables of the others at their initial  *)
(* values.                                                                 *)
(***************************************************************************)
EXTENDS Integers, Sequences, FiniteSets, TLC

VARIABLES
    chapters,          \* MemberGenerator.chapters
    generated_emails,  \* MemberGenerator.generated_emails
    members,           \* generate_members: the local list `members`
    total_count,       \* generate_members: the argument
    i,                 \* generate_members: the loop index
    pc,                \* position of the running script
    calls,             \* number of generate_email calls made so far
    last_call,         \* the latest generate_email call: arguments, result, loop tests
    clock,             \* the wall clock datetime.now() reads, in ticks
    dates,             \* the date fields of the latest generate_members iteration
    member_dates,      \* generate_member: joined_date and expiry_date of the latest record
    statements,        \* the INSERT statements of the SQL text, as written
    sql_file,          \* the SQL text handed to the import script
    batch_size,        \* split_into_batches / generate_members_sql: batch_size
    batches,           \* the list of batches returned
    records,           \* generate_members_sql: all_members
    existing_emails,   \* generate_members_sql: existing_emails
    bpc,               \* position of the batch scripts
    status_draw,       \* generate_members: status_rand and status of the latest iteration
    file_count,        \* number of batch files written to the batch directory
    position,          \* import_member_batches: the loop index i of the file in process
    current,           \* import_member_batches: the batch number of the file in process
    fpc,               \* position of the batch file scripts
    other_generator,   \* a second MemberGenerator: constructed?, its generated_emails, its calls
    dry_run,           \* GitHubIssueCreator.dry_run
    created_issues,    \* GitHubIssueCreator.created_issues
    features,          \* create_all_from_json: data["feature_requests"]
    feature_idx,       \* create_all_from_json: features handled so far
    sub_idx,           \* create_feature_request_with_sub_issues: sub-issues handled so far
    posts,             \* the requests.post calls made, in order
    returned,          \* the values create_issue has returned, in order
    prompts,           \* the number of input() prompts shown
    confirm,           \* create_all_from_json: the answer input() returned
    direct_calls,      \* create_issue calls made by a caller other than create_all_from_json
    ipc                \* position of the issue script

genVars == <<chapters, generated_emails, members, total_count, i, pc, calls, last_call>>

dateVars == <<clock, dates, member_dates>>

batchVars == <<statements, sql_file, batch_size, batches, records, existing_emails, bpc>>

statusVars == <<status_draw>>

fileVars == <<file_count, position, current, fpc>>

instanceVars == <<other_generator>>

issueVars == <<dry_run, created_issues, features, feature_idx, sub_idx, posts, returned,
               prompts, confirm, direct_calls, ipc>>

extraVars == <<statusVars, fileVars, instanceVars, issueVars>>

vars == <<genVars, dateVars, batchVars, extraVars>>

(***************************************************************************)
(* Bounds of the model.                                                    *)
(***************************************************************************)
MaxCount == 7         \* largest total_count passed to generate_members
MaxCalls == 4         \* direct generate_email calls on one generator
MaxDomainNum == 7     \* largest domain_num passed to generate_email directly
TicksPerDay == 2      \* clock ticks per day: tick 0 of a day is midnight exactly
MaxClock == 3         \* the clock runs from tick 0 (midnight of day 0) to MaxClock
MaxStatements == 2    \* INSERT statements in one SQL text
MaxTuples == 3        \* value-tuples (or records) in one SQL text
MaxBatchSize == 2     \* largest batch_size
MaxOtherCalls == 1    \* generate_email calls on the second generator
MaxFeatures == 2      \* feature requests in the JSON file
MaxSubIssues == 2     \* sub-issues of one feature request
MaxDirectCalls == 1   \* create_issue calls made before create_all_from_json
MaxIndex == 12        \* largest index whose first candidate email is compared
DrawSpread == 6       \* random.randint draws of generate_member: this close to an end of the range

(***************************************************************************)
(* Sample data pools (a few of the names of FIRST_NAMES and LAST_NAMES).   *)
(***************************************************************************)
FIRST_NAMES == {"James", "Mary"}

LAST_NAMES == {"Smith"}

\* Arguments a direct caller of generate_email may pass: any strings.
CallFirstNames == {"James", "JAMES"}

CallLastNames == {"Smith", "Smith1"}

\* str.lower() on the strings the model uses.
Lower(s) ==
    CASE s = "James"  -> "james"
      [] s = "JAMES"  -> "james"
      [] s = "Mary"   -> "mary"
      [] s = "Smith"  -> "smith"
      [] s = "Smith1" -> "smith1"
      [] OTHER        -> s

\* generate_email: the local list `domains`.
domains == <<"gmail.com", "yahoo.com", "outlook.com", "insurance.com", "benefits.com", "broker.com">>

\* main(): the first chapters of the sample chapter data.
ChapterCA == [id |-> "10000000-0000-0008-0000-000000000001", state |-> "CA", actual_member_count |-> 678]

ChapterTX == [id |-> "10000000-0000-0005-0000-000000000001", state |-> "TX", actual_member_count |-> 412]

\* A chapter that has no members yet.
ChapterNew == [id |-> "10000000-0000-0009-0000-000000000001", state |-> "NV", actual_member_count |-> 0]

\* The chapter lists a MemberGenerator is constructed with.
ChapterLists == {<<>>, <<ChapterCA>>, <<ChapterCA, ChapterTX>>, <<ChapterCA, ChapterNew>>}

\* random.choice(self.chapters) with draw c: every position is as likely as
\* any other, whatever the chapters hold.
ChosenChapter(chapter_list, c) == chapter_list[c]

\* sum(ch.get('actual_member_count', 0) for ch in self.chapters); the value
\* is not used after it is computed.
RECURSIVE TotalChapterCapacity(_)
TotalChapterCapacity(chapter_list) ==
    IF chapter_list = <<>> THEN 0
    ELSE Head(chapter_list).actual_member_count + TotalChapterCapacity(Tail(chapter_list))

(***************************************************************************)
(* MemberGenerator.generate_email                                          *)
(***************************************************************************)
\* base = f"{first_name.lower()}.{last_name.lower()}"
EmailBase(first_name, last_name) == Lower(first_name) \o "." \o Lower(last_name)

\* domain = domains[domain_num % len(domains)]   (Python lists are 0-based)
EmailDomain(domain_num) == domains[(domain_num % Len(domains)) + 1]

\* The while loop: `email` is the candidate under test, `counter` the next
\* suffix.  The result keeps the counter, which is also the number of
\* candidates tested against generated_emails.
RECURSIVE EmailLoop(_, _, _, _, _)
EmailLoop(base, domain, email, counter, issued) ==
    IF email \in issued
    THEN EmailLoop(base, domain, base \o ToString(counter) \o "@" \o domain, counter + 1, issued)
    ELSE [email |-> email, counter |-> counter]

\* Mutant: the candidate is returned without the uniqueness loop.
generate_email_NoLoop(first_name, last_name, domain_num, issued) ==
    [email |-> EmailBase(first_name, last_name) \o "@" \o EmailDomain(domain_num), counter |-> 1]

\* Mutant: the loop goes on testing keys after it has found a free one, once
\* for every issued key.
generate_email_TestsOn(first_name, last_name, domain_num, issued) ==
    LET base   == EmailBase(first_name, last_name)
        domain == EmailDomain(domain_num)
        r      == EmailLoop(base, domain, base \o "@" \o domain, 1, issued)
    IN  [email |-> r.email, counter |-> r.counter + Cardinality(issued) + 1]

\* Mutant: the suffix counter starts at 2.
generate_email_FromTwo(first_name, last_name, domain_num, issued) ==
    LET base   == EmailBase(first_name, last_name)
        domain == EmailDomain(domain_num)
    IN  EmailLoop(base, domain, base \o "@" \o domain, 2, issued)

generate_email(first_name, last_name, domain_num, issued) ==
    LET base   == EmailBase(first_name, last_name)
        domain == EmailDomain(domain_num)
    IN  EmailLoop(base, domain, base \o "@" \o domain, 1, issued)

NoCall == [first_name |-> "", last_name |-> "", domain_num |-> 0, email |-> "", tried |-> 0, before |-> {}]

CallRecord(first_name, last_name, domain_num, r, issued) ==
    [first_name |-> first_name, last_name |-> last_name, domain_num |-> domain_num,
     email |-> r.email, tried |-> r.counter, before |-> issued]

(***************************************************************************)
(* MemberGenerator.__init__                                                *)
(***************************************************************************)
InitGen ==
    /\ chapters \in ChapterLists
    /\ generated_emails = {}
    /\ members = <<>>
    /\ total_count = 0
    /\ i = 0
    /\ pc = "idle"
    /\ calls = 0
    /\ last_call = NoCall

\* A direct call generator.generate_email(first_name, last_name, domain_num).
GenerateEmail ==
    /\ pc = "idle"
    /\ calls < MaxCalls
    /\ \E first_name \in CallFirstNames, last_name \in CallLastNames, domain_num \in 0..MaxDomainNum :
          LET r == generate_email(first_name, last_name, domain_num, generated_emails)
          IN  /\ generated_emails' = generated_emails \cup {r.email}
              /\ last_call' = CallRecord(first_name, last_name, domain_num, r, generated_emails)
    /\ calls' = calls + 1
    /\ UNCHANGED <<chapters, members, total_count, i, pc>>
    /\ UNCHANGED <<dateVars, batchVars, extraVars>>

(***************************************************************************)
(* A second MemberGenerator in the same process.                           *)
(***************************************************************************)
NoGenerator == [constructed |-> FALSE, generated_emails |-> {}, calls |-> 0]

InitInstances == other_generator = NoGenerator

\* Mutant: generated_emails is one set shared by all instances.
OtherInstanceCall_SharedSet(issued, email) == issued \cup {email}

\* self.generated_emails = set() makes the set an attribute of the instance:
\* the set `issued` of one generator after another generator has issued
\* `email`.
OtherInstanceCall(issued, email) == issued

\* MemberGenerator(chapter_data) is called once more: __init__ gives the new
\* instance an empty set.
ConstructOther ==
    /\ pc = "idle"
    /\ ~other_generator.constructed
    /\ other_generator' = [constructed |-> TRUE, generated_emails |-> {}, calls |-> 0]
    /\ UNCHANGED <<genVars, dateVars, batchVars, statusVars, fileVars, issueVars>>

\* generate_email('James', 'Smith', 0) is called on the second generator.
GenerateEmailOther ==
    /\ pc = "idle"
    /\ other_generator.constructed
    /\ other_generator.calls < MaxOtherCalls
    /\ LET r == generate_email("James", "Smith", 0, other_generator.generated_emails)
       IN  /\ other_generator' = [constructed |-> TRUE,
                                  generated_emails |-> other_generator.generated_emails \cup {r.email},
                                  calls |-> other_generator.calls + 1]
           /\ generated_emails' = OtherInstanceCall(generated_emails, r.email)
    /\ UNCHANGED <<chapters, members, total_count, i, pc, calls, last_call>>
    /\ UNCHANGED <<dateVars, batchVars, statusVars, fileVars, issueVars>>

(***************************************************************************)
(* MemberGenerator.generate_members                                        *)
(***************************************************************************)
\* members = []; the capacity sum; the loop is entered.
GenerateMembersStart ==
    /\ pc = "idle"
    /\ \E n \in 0..MaxCount : total_count' = n
    /\ members' = <<>>
    /\ i' = 0
    /\ pc' = "loop"
    /\ UNCHANGED <<chapters, generated_emails, calls, last_call>>
    /\ UNCHANGED <<dateVars, batchVars, extraVars>>

\* The member record of one iteration (the fields of identity and ownership).
MemberRecord(email, first_name, last_name, chapter) ==
    [email |-> email, first_name |-> first_name, last_name |-> last_name,
     state |-> chapter.state, chapter_id |-> chapter.id]

\* Mutant: an empty chapter list is not noticed; the record is made with the
\* defaults of chapter.get.
GenerateMembersIteration_NoChapterDraw ==
    /\ pc = "loop"
    /\ i < total_count
    /\ \E first_name \in FIRST_NAMES, last_name \in LAST_NAMES :
          LET r == generate_email(first_name, last_name, i, generated_emails)
              chapter == IF chapters = <<>> THEN [id |-> "None", state |-> "CA"] ELSE chapters[1]
          IN  /\ generated_emails' = generated_emails \cup {r.email}
              /\ last_call' = CallRecord(first_name, last_name, i, r, generated_emails)
              /\ members' = Append(members, MemberRecord(r.email, first_name, last_name, chapter))
    /\ i' = i + 1
    /\ calls' = calls + 1
    /\ UNCHANGED <<chapters, total_count, pc>>
    /\ UNCHANGED <<dateVars, batchVars, extraVars>>

\* One iteration of `for i in range(total_count)`.  random.choice of an empty
\* list raises IndexError, which nothing catches.
GenerateMembersIteration ==
    /\ pc = "loop"
    /\ i < total_count
    /\ IF chapters = <<>>
       THEN /\ pc' = "IndexError"
            /\ UNCHANGED <<generated_emails, members, i, calls, last_call>>
       ELSE \E c \in 1..Len(chapters), first_name \in FIRST_NAMES, last_name \in LAST_NAMES :
               LET r == generate_email(first_name, last_name, i, generated_emails)
               IN  /\ generated_emails' = generated_emails \cup {r.email}
                   /\ last_call' = CallRecord(first_name, last_name, i, r, generated_emails)
                   /\ members' = Append(members, MemberRecord(r.email, first_name, last_name,
                                                             ChosenChapter(chapters, c)))
                   /\ i' = i + 1
                   /\ calls' = calls + 1
                   /\ pc' = pc
    /\ UNCHANGED <<chapters, total_count>>
    /\ UNCHANGED <<dateVars, batchVars, extraVars>>

\* The loop is exhausted: return members.
GenerateMembersReturn ==
    /\ pc = "loop"
    /\ i = total_count
    /\ pc' = "done"
    /\ UNCHANGED <<chapters, generated_emails, members, total_count, i, calls, last_call>>
    /\ UNCHANGED <<dateVars, batchVars, extraVars>>

(***************************************************************************)
(* Dates.  A datetime is a number of clock ticks, tick 0 being midnight of *)
(* the day the script starts; a date (the "%Y-%m-%d" string) is a day      *)
(* number.  strftime drops the time of day, strptime gives midnight.       *)
(***************************************************************************)
\* datetime.strftime("%Y-%m-%d"): the day a datetime lies in.
strftime(t) == t \div TicksPerDay

\* datetime.strptime(d, "%Y-%m-%d"): midnight of the day.
strptime(d) == d * TicksPerDay

\* timedelta(days=n)
timedelta(n) == n * TicksPerDay

\* random.randint(0, 30) and random.randint(0, 11) of generate_member_since_date
MaxYearsAgo == 30

MaxMonthsAgo == 11

DaysPerYear == 365

DaysPerMonth == 30

\* generate_member_since_date, with the draws and the clock reading as arguments
generate_member_since_date(years_ago, months_ago, now) ==
    strftime(now - timedelta(years_ago * DaysPerYear + months_ago * DaysPerMonth))

\* generate_renewal_date: `while renewal < datetime.now(): renewal += timedelta(days=365)`
RenewalPeriod == 365

RECURSIVE RenewalLoop(_, _)
RenewalLoop(renewal, now) ==
    IF renewal < now THEN RenewalLoop(renewal + timedelta(RenewalPeriod), now) ELSE renewal

\* Mutant: the date is advanced once more after the loop.
generate_renewal_date_ExtraPeriod(member_since, now) ==
    strftime(RenewalLoop(strptime(member_since) + timedelta(RenewalPeriod), now) + timedelta(RenewalPeriod))

generate_renewal_date(member_since, now) ==
    strftime(RenewalLoop(strptime(member_since) + timedelta(RenewalPeriod), now))

\* random.uniform(8, 18): the whole rates of the interval
MinCreditsPerYear == 8

MaxCreditsPerYear == 18

\* min(total, 150.0)
CreditCap == 150

\* (datetime.now() - member_date).days, for a clock that does not run backwards
TenureDays(member_since, now) == (now - strptime(member_since)) \div TicksPerDay

\* round(x, 2) of x = num / den, as hundredths.  den is odd here, so no tie.
RoundHundredths(num, den) == (2 * 100 * num + den) \div (2 * den)

Min(a, b) == IF a <= b THEN a ELSE b

\* Mutant: the total is not capped.
CreditsForTenure_NoCap(days, avg_per_year) == RoundHundredths(days * avg_per_year, DaysPerYear)

\* total = round(years_member * avg_per_year, 2); min(total, 150.0), in hundredths
CreditsForTenure(days, avg_per_year) ==
    Min(RoundHundredths(days * avg_per_year, DaysPerYear), CreditCap * 100)

calculate_ce_credits(member_since, avg_per_year, now) ==
    CreditsForTenure(TenureDays(member_since, now), avg_per_year)

NoDates == [years_ago |-> 0, months_ago |-> 0, avg_per_year |-> 0,
            now_since |-> 0, now_renewal |-> 0, now_credits |-> 0,
            member_since |-> 0, renewal_date |-> 0, total_ce_credits |-> 0, made |-> FALSE]

InitDates ==
    /\ clock = 0
    /\ dates = NoDates

\* The date part of one generate_members iteration: member_since,
\* renewal_date and total_ce_credits, each computed from its own reading of
\* the clock, which may advance between the readings.
GenerateDates ==
    /\ ~dates.made
    /\ \E years_ago \in 0..MaxYearsAgo, months_ago \in 0..MaxMonthsAgo,
          avg_per_year \in MinCreditsPerYear..MaxCreditsPerYear,
          n1 \in clock..MaxClock :
          \E n2 \in n1..MaxClock :
             \E n3 \in n2..MaxClock :
                LET member_since == generate_member_since_date(years_ago, months_ago, n1)
                IN  /\ dates' = [years_ago |-> years_ago, months_ago |-> months_ago,
                                 avg_per_year |-> avg_per_year,
                                 now_since |-> n1, now_renewal |-> n2, now_credits |-> n3,
                                 member_since |-> member_since,
                                 renewal_date |-> generate_renewal_date(member_since, n2),
                                 total_ce_credits |-> calculate_ce_credits(member_since, avg_per_year, n3),
                                 made |-> TRUE]
                    /\ clock' = n3
    /\ UNCHANGED member_dates
    /\ UNCHANGED <<genVars, batchVars, extraVars>>

\* The record is appended and the loop goes on to its next iteration.
NextIteration ==
    /\ dates.made
    /\ dates' = NoDates
    /\ UNCHANGED <<clock, member_dates>>
    /\ UNCHANGED <<genVars, batchVars, extraVars>>

(***************************************************************************)
(* generate_members_for_existing_schema.py: the dates of generate_member   *)
(***************************************************************************)
\* random.randint(30, 3650): days_member
MinDaysMember == 30

MaxDaysMember == 3650

\* random.randint(30, 365): the days until expiry
MinExpiryDays == 30

MaxExpiryDays == 365

\* The draws of random.randint(lo, hi) the model takes: those at most
\* DrawSpread away from lo or from hi.
RandintDraws(lo, hi) == {d \in lo..hi : d <= lo + DrawSpread \/ d >= hi - DrawSpread}

\* joined_date = datetime.now() - timedelta(days=days_member)
joined_date(days_member, now) == now - timedelta(days_member)

\* Mutant: the days are taken off the clock reading.
expiry_date_Before(days, now) == now - timedelta(days)

\* expiry_date = datetime.now() + timedelta(days=random.randint(30, 365))
expiry_date(days, now) == now + timedelta(days)

NoMemberDates ==
    [days_member |-> 0, expiry_days |-> 0, now_joined |-> 0, now_expiry |-> 0,
     joined_date |-> 0, expiry_date |-> 0, made |-> FALSE]

InitMemberDates == member_dates = NoMemberDates

\* The date part of one generate_member call: joined_date and expiry_date,
\* each computed from its own reading of the clock, which may advance
\* between the readings.
GenerateMemberDates ==
    /\ ~member_dates.made
    /\ \E days_member \in RandintDraws(MinDaysMember, MaxDaysMember),
          expiry_days \in RandintDraws(MinExpiryDays, MaxExpiryDays),
          n1 \in clock..MaxClock :
          \E n2 \in n1..MaxClock :
             /\ member_dates' = [days_member |-> days_member, expiry_days |-> expiry_days,
                                 now_joined |-> n1, now_expiry |-> n2,
                                 joined_date |-> joined_date(days_member, n1),
                                 expiry_date |-> expiry_date(expiry_days, n2),
                                 made |-> TRUE]
             /\ clock' = n2
    /\ UNCHANGED dates
    /\ UNCHANGED <<genVars, batchVars, extraVars>>

\* generate_member returns the record; generate_members_sql goes on to its
\* next call.
NextMember ==
    /\ member_dates.made
    /\ member_dates' = NoMemberDates
    /\ UNCHANGED <<clock, dates>>
    /\ UNCHANGED <<genVars, batchVars, extraVars>>

(***************************************************************************)
(* SQL text.  A text is a sequence of tokens; a token is a piece of text    *)
(* that no pattern of the scripts can cut: a keyword, a punctuation mark,  *)
(* a run of white space, or a run of other characters.                     *)
(***************************************************************************)
KW_INSERT == "INSERT INTO "

KW_VALUES == "VALUES"

\* \s
IsSpace(t) == t \in {" ", "\n", "    "}

\* \w+ : the tokens made of letters, digits and underscores only
IsWord(t) == t \in {"t", "u", "v", "w", "members", "chapters", "a", "b", "x", "y", "z",
                       "1", "2", "3", "4", "BEGIN", "COMMIT"}

Least(S) == CHOOSE k \in S : \A j \in S : k <= j

Greatest(S) == CHOOSE k \in S : \A j \in S : k >= j

\* The first index >= p of token t in s, or 0.
Find(s, p, t) ==
    LET S == {k \in p..Len(s) : s[k] = t}
    IN  IF S = {} THEN 0 ELSE Least(S)

\* \s* from index p: the first index >= p that holds no white space.
SkipSpaces(s, p) ==
    LET S == {k \in p..Len(s) : ~IsSpace(s[k])}
    IN  IF S # {} THEN Least(S)
        ELSE IF p > Len(s) THEN p
        ELSE Len(s) + 1

\* The first index >= p where `INSERT INTO \w+` matches, or 0.
FindInsert(s, p) ==
    LET S == {k \in p..(Len(s) - 1) : s[k] = KW_INSERT /\ IsWord(s[k + 1])}
    IN  IF S = {} THEN 0 ELSE Least(S)

\* re.findall(r'(INSERT INTO \w+.*?VALUES.*?);', sql_content, re.DOTALL)
\* from index p: the lazy .*? stops at the first VALUES and then at the
\* first ';', whatever lies between.
RECURSIVE FindInserts(_, _)
FindInserts(sql_content, p) ==
    LET s == FindInsert(sql_content, p)
        v == IF s = 0 THEN 0 ELSE Find(sql_content, s + 2, KW_VALUES)
        e == IF v = 0 THEN 0 ELSE Find(sql_content, v + 1, ";")
    IN  IF e = 0 THEN <<>>
        ELSE <<SubSeq(sql_content, s, e - 1)>> \o FindInserts(sql_content, e + 1)

\* re.match(r'(INSERT INTO \w+\s*\([^)]+\)\s*VALUES)\s*(.*)', insert, re.DOTALL)
\* on a text that starts with `INSERT INTO \w+`.
HeaderMatch(insert) ==
    LET j == SkipSpaces(insert, 3)
        k == IF j <= Len(insert) /\ insert[j] = "(" THEN Find(insert, j + 1, ")") ELSE 0
        m == IF k >= j + 2 THEN SkipSpaces(insert, k + 1) ELSE 0
        ok == m > 0 /\ m <= Len(insert) /\ insert[m] = KW_VALUES
    IN  IF ok
        THEN [matched |-> TRUE, header |-> SubSeq(insert, 1, m),
              values_part |-> SubSeq(insert, SkipSpaces(insert, m + 1), Len(insert))]
        ELSE [matched |-> FALSE, header |-> <<>>, values_part |-> <<>>]

\* re.findall(r'\([^)]+\)', values_part) from index p: a value set runs from
\* a '(' to the first ')' after it and holds at least one character between.
RECURSIVE FindValueSets(_, _)
FindValueSets(values_part, p) ==
    LET a == Find(values_part, p, "(")
        b == IF a = 0 THEN 0 ELSE Find(values_part, a + 1, ")")
    IN  IF b = 0 THEN <<>>
        ELSE IF b = a + 1 THEN FindValueSets(values_part, b + 1)
        ELSE <<SubSeq(values_part, a, b)>> \o FindValueSets(values_part, b + 1)

\* sep.join(parts)
RECURSIVE Join(_, _)
Join(parts, sep) ==
    IF parts = <<>> THEN <<>>
    ELSE IF Len(parts) = 1 THEN parts[1]
    ELSE parts[1] \o sep \o Join(Tail(parts), sep)

\* for i in range(0, len(value_sets), batch_size): header + '\n' + ',\n'.join(batch) + ';'
\* (i is the 0-based index of the code)
RECURSIVE BatchLoop(_, _, _, _)
BatchLoop(header, value_sets, idx, size) ==
    IF idx >= Len(value_sets) THEN <<>>
    ELSE LET batch == SubSeq(value_sets, idx + 1, Min(idx + size, Len(value_sets)))
         IN  <<header \o <<"\n">> \o Join(batch, <<",", "\n">>) \o <<";">>>>
             \o BatchLoop(header, value_sets, idx + size, size)

\* The body of `for insert in inserts`.
BatchesOfInsert(insert, size) ==
    LET match == HeaderMatch(insert)
    IN  IF match.matched
        THEN BatchLoop(match.header, FindValueSets(match.values_part, 1), 0, size)
        ELSE <<insert \o <<";">>>>

RECURSIVE InsertLoop(_, _)
InsertLoop(inserts, size) ==
    IF inserts = <<>> THEN <<>>
    ELSE BatchesOfInsert(Head(inserts), size) \o InsertLoop(Tail(inserts), size)

split_into_batches(sql_content, size) == InsertLoop(FindInserts(sql_content, 1), size)

\* The tokens of s[lo..hi] whose index is not in `cut`, in order.
RECURSIVE Without(_, _, _, _)
Without(s, cut, lo, hi) ==
    IF lo > hi THEN <<>>
    ELSE IF lo = hi THEN (IF lo \in cut THEN <<>> ELSE <<s[lo]>>)
    ELSE LET mid == (lo + hi) \div 2
         IN  Without(s, cut, lo, mid) \o Without(s, cut, mid + 1, hi)

\* re.sub(r'--.*$', '', content, flags=re.MULTILINE): a comment runs from '--'
\* to the end of its line; the line break stays.
StripComments(content) ==
    LET InComment(k) == \E j \in 1..k : /\ content[j] = "--"
                                         /\ \A m \in j..k : content[m] # "\n"
    IN  Without(content, {k \in 1..Len(content) : InComment(k)}, 1, Len(content))

\* content.replace(word + ';', '')
RemovePair(content, word) ==
    LET Starts == {k \in 1..(Len(content) - 1) : content[k] = word /\ content[k + 1] = ";"}
    IN  Without(content, Starts \cup {k + 1 : k \in Starts}, 1, Len(content))

\* str.strip()
strip(content) ==
    LET S == {k \in 1..Len(content) : ~IsSpace(content[k])}
    IN  IF S = {} THEN <<>> ELSE SubSeq(content, Least(S), Greatest(S))

read_sql_file(content) ==
    strip(RemovePair(RemovePair(StripComments(content), "BEGIN"), "COMMIT"))

(***************************************************************************)
(* The SQL texts the import script is given.                               *)
(***************************************************************************)
Quoted(v) == <<"'", v, "'">>

\* The value-tuples of hand-written statements; n numbers the tuple.
\*   plain  (1,'x'), (2,'y'), ...    paren  (n,'(212) 555-0101')    comma  (n,'x,y')
TupleKinds == {"plain", "paren", "comma"}

Letters == <<"x", "y", "z", "w", "v">>

RawTuple(kind, n) ==
    <<"(", ToString(n), ",">>
    \o (CASE kind = "plain" -> Quoted(Letters[n])
          [] kind = "paren" -> <<"'", "(", "212", ")", " ", "555-0101", "'">>
          [] kind = "comma" -> <<"'", "x", ",", "y", "'">>)
    \o <<")">>

\* Statement s of a text goes to table TableNames[s].
TableNames == <<"t", "u", "v", "w">>

\* INSERT INTO t (a,b) VALUES    or, with no column list,    INSERT INTO t VALUES
RawHeader(st) ==
    <<KW_INSERT, st.table, " ">>
    \o (IF st.columns THEN <<"(", "a", ",", "b", ")", " ">> ELSE <<>>)
    \o <<KW_VALUES>>

\* INSERT INTO t (a,b) VALUES (1,'x'),(2,'y'),(3,'z');
\* A statement whose author forgot the terminator ends without the ';'.
RawStatement(st) ==
    RawHeader(st) \o <<" ">> \o Join(st.tuples, <<",">>)
    \o (IF st.terminated THEN <<";">> ELSE <<>>)

RECURSIVE RawText(_)
RawText(sts) ==
    IF sts = <<>> THEN <<>>
    ELSE IF Len(sts) = 1 THEN RawStatement(sts[1])
    ELSE RawStatement(sts[1]) \o <<"\n">> \o RawText(Tail(sts))

(***************************************************************************)
(* MemberGenerator.export_to_sql                                           *)
(***************************************************************************)
\* A member record as generate_members builds it; every second one has no
\* address_line2.
SampleMember(n) ==
    [id |-> "id-" \o ToString(n), email |-> "james.smith" \o ToString(n) \o "@gmail.com",
     name |-> "James Smith", first_name |-> "James", last_name |-> "Smith",
     phone_area |-> "212", phone_rest |-> "555-0101",
     address_line1 |-> "100 Main St",
     address_line2 |-> IF n % 2 = 0 THEN "Suite 100" ELSE "None",
     city |-> "Los Angeles", state |-> "CA", zip_code |-> "90001", country |-> "USA",
     chapter_id |-> ChapterCA.id, status |-> "active",
     member_since |-> "2020-01-01", renewal_date |-> "2027-01-01",
     engagement_score |-> "80", total_ce_credits |-> "96.0",
     specialties |-> <<"Dental Insurance", "Life Insurance">>,
     company_name |-> "Smith Insurance Agency", job_title |-> "Principal",
     created_at |-> "2020-01-01"]

ValueSep == <<",", " ">>

\* f"({area}) {exchange}-{number}" between quotes
PhoneValue(m) == <<"'", "(", m.phone_area, ")", " ", m.phone_rest, "'">>

\* "{" + ",".join(f'"{s}"' for s in member['specialties']) + "}" between quotes
SpecialtiesValue(m) ==
    <<"'", "{">> \o Join([j \in 1..Len(m.specialties) |-> <<"\"", m.specialties[j], "\"">>], <<",">>) \o <<"}", "'">>

\* f"Experienced {title} specializing in {', '.join(two specialties)}." between quotes
BioValue(m) ==
    <<"'", "Experienced principal specializing in ", m.specialties[1], ",", " ", m.specialties[2], ".", "'">>

\* The tuple export_to_sql writes for one member: 23 values.
ExportTuple(m) ==
    <<"(">> \o Quoted(m.id) \o ValueSep \o Quoted(m.email) \o ValueSep \o Quoted(m.name)
    \o ValueSep \o Quoted(m.first_name) \o ValueSep \o Quoted(m.last_name)
    \o ValueSep \o PhoneValue(m) \o ValueSep \o Quoted(m.address_line1)
    \o ValueSep \o (IF m.address_line2 = "None" THEN <<"NULL">> ELSE Quoted(m.address_line2))
    \o ValueSep \o Quoted(m.city) \o ValueSep \o Quoted(m.state) \o ValueSep \o Quoted(m.zip_code)
    \o ValueSep \o Quoted(m.country) \o ValueSep \o Quoted(m.chapter_id) \o ValueSep \o Quoted(m.status)
    \o ValueSep \o Quoted(m.member_since) \o ValueSep \o Quoted(m.renewal_date)
    \o ValueSep \o <<m.engagement_score>> \o ValueSep \o <<m.total_ce_credits>>
    \o ValueSep \o SpecialtiesValue(m) \o ValueSep \o Quoted(m.company_name)
    \o ValueSep \o Quoted(m.job_title) \o ValueSep \o BioValue(m) \o ValueSep \o Quoted(m.created_at)
    \o <<")">>

\* batch_size = 100 of export_to_sql
ExportBatchSize == 100

ExportHeader ==
    <<KW_INSERT, "members", " ", "(", "\n",
      "    ", "id, email, name, first_name, last_name, phone, address_line1, address_line2,", "\n",
      "    ", "city, state, zip_code, country, chapter_id, status, member_since, renewal_date,", "\n",
      "    ", "engagement_score, total_ce_credits, specialties, company_name, job_title, bio, created_at", "\n",
      ")", " ", KW_VALUES, "\n">>

\* The tuples of one batch: ",\n" between them, ";\n\n" after the last.
RECURSIVE ExportRows(_)
ExportRows(batch) ==
    IF batch = <<>> THEN <<>>
    ELSE <<"    ">> \o ExportTuple(batch[1])
         \o (IF Len(batch) > 1 THEN <<",", "\n">> ELSE <<";", "\n", "\n">>)
         \o ExportRows(Tail(batch))

\* for i in range(0, len(members), batch_size)   (idx is the 0-based i)
RECURSIVE ExportLoop(_, _)
ExportLoop(ms, idx) ==
    IF idx >= Len(ms) THEN <<>>
    ELSE LET batch == SubSeq(ms, idx + 1, Min(idx + ExportBatchSize, Len(ms)))
         IN  <<"--", " ", "Batch ", ToString((idx \div ExportBatchSize) + 1), " ", "(",
               ToString(idx + 1), " to ", ToString(Min(idx + ExportBatchSize, Len(ms))), ")", "\n">>
             \o ExportHeader \o ExportRows(batch) \o ExportLoop(ms, idx + ExportBatchSize)

\* The text export_to_sql writes to output_file.
export_to_sql(ms) ==
    <<"--", " ", "=====", "\n",
      "--", " ", "NABIP AMS - Member Seed Data ", "(", "20,000 records", ")", "\n",
      "--", " ", "Generated: 2026-11-05 10:00:00", "\n",
      "--", " ", "=====", "\n", "\n",
      "BEGIN", ";", "\n", "\n">>
    \o ExportLoop(ms, 0)
    \o <<"COMMIT", ";", "\n">>

(***************************************************************************)
(* generate_members_for_existing_schema.py                                 *)
(***************************************************************************)
\* random.randint(1, 999) of the retry loop: the draws the model takes
SuffixDraws == {1, 999}

\* Mutant: the index is left out of the email.
MemberStem_NoIndex(first_name, last_name, index) ==
    Lower(first_name) \o "." \o Lower(last_name)

\* f"{first_name.lower()}.{last_name.lower()}{index}"
MemberStem(first_name, last_name, index) ==
    Lower(first_name) \o "." \o Lower(last_name) \o ToString(index)

\* generate_member: the email of record `index`.  The first candidate embeds
\* the index; every retry draws a suffix.  The set of emails the loop can
\* end with.
MemberEmails(first_name, last_name, index, existing) ==
    LET stem  == MemberStem(first_name, last_name, index)
        first == stem \o "@example.com"
    IN  IF first \notin existing THEN {first}
        ELSE {stem \o "_" \o ToString(r) \o "@example.com" : r \in SuffixDraws} \ existing

\* The value tuple generate_members_sql writes for one member: 15 values.
SqlValue(m) ==
    <<"(">> \o Quoted(m.id) \o ValueSep \o Quoted(m.email) \o ValueSep \o Quoted(m.first_name)
    \o ValueSep \o Quoted(m.last_name) \o ValueSep \o Quoted("individual") \o ValueSep \o Quoted("active")
    \o ValueSep \o Quoted("10000000-0000-0000-0000-000000000001")
    \o ValueSep \o Quoted("2020-01-01T10:00:00") \o ValueSep \o Quoted("2027-01-01T10:00:00")
    \o ValueSep \o <<"true">> \o ValueSep \o Quoted("+12025550101")
    \o ValueSep \o Quoted(m.last_name \o " Consulting") \o ValueSep \o Quoted("Agency Owner")
    \o ValueSep \o <<"50">>
    \o ValueSep \o <<"'", "{", "\"street\": \"100 Main St\"", ",", " ", "\"city\": \"Springfield\"", ",", " ",
                     "\"state\": \"IL\"", ",", " ", "\"zip\": \"62701\"", "}", "'">>
    \o <<")">>

SqlHeader ==
    <<KW_INSERT, "members", " ", "(",
      "id, email, first_name, last_name, member_type, status, chapter_id, joined_date, expiry_date, renewal_reminder_sent, phone, company, job_title, engagement_score, address",
      ")", " ", KW_VALUES, "\n">>

\* Mutant: all records are rendered as one batch, whatever batch_size is.
SqlBatchLoop_OneBatch(all_members, idx, size) ==
    IF all_members = <<>> THEN <<>>
    ELSE <<SqlHeader \o Join([j \in 1..Len(all_members) |-> SqlValue(all_members[j])], <<",", "\n">>)
           \o <<";", "\n">>>>

\* for batch_num in range(0, len(all_members), batch_size)   (idx is the 0-based batch_num)
RECURSIVE SqlBatchLoop(_, _, _)
SqlBatchLoop(all_members, idx, size) ==
    IF idx >= Len(all_members) THEN <<>>
    ELSE LET batch  == SubSeq(all_members, idx + 1, Min(idx + size, Len(all_members)))
             values == [j \in 1..Len(batch) |-> SqlValue(batch[j])]
         IN  <<SqlHeader \o Join(values, <<",", "\n">>) \o <<";", "\n">>>>
             \o SqlBatchLoop(all_members, idx + size, size)

(***************************************************************************)
(* generate_members: the status of a record.                               *)
(***************************************************************************)
\* random.random() gives a float of [0, 1); the model counts it in
\* thousandths: status_rand is one of 0 .. StatusResolution - 1.
StatusResolution == 1000

\* The boundaries 0.90, 0.95, 0.98 of the if / elif chain, in thousandths.
ActiveBelow == 900

LapsedBelow == 950

InactiveBelow == 980

\* Mutant: the comparisons are <= instead of <.
StatusOf_Inclusive(status_rand) ==
    IF status_rand <= ActiveBelow THEN "active"
    ELSE IF status_rand <= LapsedBelow THEN "lapsed"
    ELSE IF status_rand <= InactiveBelow THEN "inactive"
    ELSE "pending"

\* The if / elif / else chain on status_rand.
StatusOf(status_rand) ==
    IF status_rand < ActiveBelow THEN "active"
    ELSE IF status_rand < LapsedBelow THEN "lapsed"
    ELSE IF status_rand < InactiveBelow THEN "inactive"
    ELSE "pending"

NoStatus == [made |-> FALSE, status_rand |-> 0, status |-> ""]

InitStatus == status_draw = NoStatus

\* The status part of one iteration: one draw, one status.
GenerateStatus ==
    /\ \E status_rand \in 0..(StatusResolution - 1) :
          status_draw' = [made |-> TRUE, status_rand |-> status_rand, status |-> StatusOf(status_rand)]
    /\ UNCHANGED <<genVars, dateVars, batchVars, fileVars, instanceVars, issueVars>>

(***************************************************************************)
(* SpecBatch: the batch scripts.                                           *)
(***************************************************************************)
InitBatch ==
    /\ statements = <<>>
    /\ sql_file = <<>>
    /\ batch_size = 0
    /\ batches = <<>>
    /\ records = <<>>
    /\ existing_emails = {}
    /\ bpc = "write"

TupleCount == IF statements = <<>> THEN 0
              ELSE Len(statements[1].tuples)
                   + (IF Len(statements) > 1 THEN Len(statements[2].tuples) ELSE 0)
                   + (IF Len(statements) > 2 THEN Len(statements[3].tuples) ELSE 0)

\* An author starts a statement, with or without a column list, with or
\* without the terminating ';'.
WriteStatement ==
    /\ bpc = "write"
    /\ Len(statements) < MaxStatements
    /\ statements # <<>> => statements[Len(statements)].tuples # <<>>
    /\ TupleCount < MaxTuples
    /\ \E columns \in BOOLEAN, terminated \in BOOLEAN, kind \in TupleKinds :
          statements' = Append(statements,
                               [table |-> TableNames[Len(statements) + 1], columns |-> columns,
                                terminated |-> terminated,
                                tuples |-> <<RawTuple(kind, TupleCount + 1)>>])
    /\ UNCHANGED <<sql_file, batch_size, batches, records, existing_emails, bpc>>
    /\ UNCHANGED <<genVars, dateVars, extraVars>>

\* The author adds a value-tuple to the statement being written.
WriteTuple ==
    /\ bpc = "write"
    /\ statements # <<>>
    /\ TupleCount < MaxTuples
    /\ \E kind \in TupleKinds :
          statements' = [statements EXCEPT ![Len(statements)].tuples =
                                              Append(@, RawTuple(kind, TupleCount + 1))]
    /\ UNCHANGED <<sql_file, batch_size, batches, records, existing_emails, bpc>>
    /\ UNCHANGED <<genVars, dateVars, extraVars>>

\* The hand-written text is complete.
WriteDone ==
    /\ bpc = "write"
    /\ statements # <<>>
    /\ sql_file' = RawText(statements)
    /\ bpc' = "text"
    /\ UNCHANGED <<statements, batch_size, batches, records, existing_emails>>
    /\ UNCHANGED <<genVars, dateVars, extraVars>>

\* split_into_batches(sql_content, batch_size) on the text.
SplitText ==
    /\ bpc = "text"
    /\ \E size \in 1..MaxBatchSize :
          /\ batch_size' = size
          /\ batches' = split_into_batches(sql_file, size)
    /\ bpc' = "split"
    /\ UNCHANGED <<statements, sql_file, records, existing_emails>>
    /\ UNCHANGED <<genVars, dateVars, extraVars>>

\* generate_member_seed_data.main(): export_to_sql writes the members file.
ExportToSql ==
    /\ bpc = "write"
    /\ statements = <<>>
    /\ \E n \in 0..MaxTuples :
          LET ms == [k \in 1..n |-> SampleMember(k)]
          IN  /\ statements' = IF n = 0 THEN <<>>
                               ELSE <<[table |-> "members", columns |-> TRUE, terminated |-> TRUE,
                                       tuples |-> [k \in 1..n |-> ExportTuple(ms[k])]]>>
              /\ sql_file' = export_to_sql(ms)
    /\ bpc' = "file"
    /\ UNCHANGED <<batch_size, batches, records, existing_emails>>
    /\ UNCHANGED <<genVars, dateVars, extraVars>>

\* import_to_supabase.main(): read_sql_file, then split_into_batches.
ImportFile ==
    /\ bpc = "file"
    /\ \E size \in 1..MaxBatchSize :
          /\ batch_size' = size
          /\ batches' = split_into_batches(read_sql_file(sql_file), size)
    /\ bpc' = "imported"
    /\ UNCHANGED <<statements, sql_file, records, existing_emails>>
    /\ UNCHANGED <<genVars, dateVars, extraVars>>

\* generate_members_sql(count, batch_size) is called.
SqlStart ==
    /\ bpc = "write"
    /\ statements = <<>>
    /\ \E count \in 0..MaxTuples, size \in 1..MaxBatchSize :
          /\ total_count' = count
          /\ batch_size' = size
    /\ bpc' = "generate"
    /\ UNCHANGED <<statements, sql_file, batches, records, existing_emails>>
    /\ UNCHANGED <<chapters, generated_emails, members, i, pc, calls, last_call>>
    /\ UNCHANGED <<dateVars, extraVars>>

\* One iteration of `for i in range(count)`: generate_member(i, existing_emails).
SqlMember ==
    /\ bpc = "generate"
    /\ Len(records) < total_count
    /\ \E first_name \in FIRST_NAMES, last_name \in LAST_NAMES :
          \E email \in MemberEmails(first_name, last_name, Len(records), existing_emails) :
             /\ existing_emails' = existing_emails \cup {email}
             /\ records' = Append(records, [id |-> "id-" \o ToString(Len(records)), email |-> email,
                                            first_name |-> first_name, last_name |-> last_name])
    /\ UNCHANGED <<statements, sql_file, batch_size, batches, bpc>>
    /\ UNCHANGED <<genVars, dateVars, extraVars>>

\* The records are rendered in batches and returned.
SqlBatches ==
    /\ bpc = "generate"
    /\ Len(records) = total_count
    /\ batches' = SqlBatchLoop(records, 0, batch_size)
    /\ bpc' = "generated"
    /\ UNCHANGED <<statements, sql_file, batch_size, records, existing_emails>>
    /\ UNCHANGED <<genVars, dateVars, extraVars>>

(***************************************************************************)
(* Batch files: generate_members_for_existing_schema.main and              *)
(* import_to_supabase.main write one file per batch,                       *)
(* import_member_batches.main reads them in the order of sorted().         *)
(***************************************************************************)
MaxBatchFiles == 1000  \* largest number of batches written to files
SmallBatchFiles == 12  \* every number of batches up to this one is written

\* The width of the format {i+1:03d}.
PadWidth == 3

RECURSIVE Power(_, _)
Power(b, n) == IF n = 0 THEN 1 ELSE b * Power(b, n - 1)

\* The decimal digits of n >= 0, as characters.
RECURSIVE Digits(_)
Digits(n) ==
    IF n < 10 THEN <<ToString(n)>> ELSE Digits(n \div 10) \o <<ToString(n % 10)>>

\* Mutant: the number is written without padding.
Format03d_NoPad(n) == Digits(n)

\* f'{n:03d}': zeros on the left up to the width, never a digit cut.
Format03d(n) ==
    LET d == Digits(n)
    IN  IF Len(d) >= PadWidth THEN d
        ELSE [k \in 1..(PadWidth - Len(d)) |-> "0"] \o d

\* The characters of f'members_batch_{i+1:03d}.sql' after the common prefix
\* 'members_batch_', up to the '.'; number is i + 1.
BatchFileName(number) == Format03d(number) \o <<".">>

\* The names of the files of batches 1 .. MaxBatchFiles.
BatchFileNames == [number \in 1..MaxBatchFiles |-> BatchFileName(number)]

\* ord() of the characters of the names.
Ord(ch) ==
    CASE ch = "." -> 46
      [] ch = "0" -> 48 [] ch = "1" -> 49 [] ch = "2" -> 50 [] ch = "3" -> 51 [] ch = "4" -> 52
      [] ch = "5" -> 53 [] ch = "6" -> 54 [] ch = "7" -> 55 [] ch = "8" -> 56 [] ch = "9" -> 57

\* a < b for Python strings: the first position where they differ decides;
\* a proper prefix is smaller.
StrLess(a, b) ==
    \/ \E k \in 1..Min(Len(a), Len(b)) :
          /\ Ord(a[k]) < Ord(b[k])
          /\ \A j \in 1..(k - 1) : a[j] = b[j]
    \/ /\ Len(a) < Len(b)
       /\ \A j \in 1..Len(a) : a[j] = b[j]

\* Of the files numbered lo..hi, the one whose name is the smallest among
\* the names greater than `name` (the empty name: all names); 0 if none.
RECURSIVE SmallestAfter(_, _, _)
SmallestAfter(lo, hi, name) ==
    IF lo > hi THEN 0
    ELSE IF lo = hi
    THEN (IF StrLess(name, BatchFileNames[lo]) THEN lo ELSE 0)
    ELSE LET mid == (lo + hi) \div 2
             a   == SmallestAfter(lo, mid, name)
             b   == SmallestAfter(mid + 1, hi, name)
         IN  IF a = 0 THEN b
             ELSE IF b = 0 THEN a
             ELSE IF StrLess(BatchFileNames[a], BatchFileNames[b]) THEN a ELSE b

\* sorted(glob.glob('members_batch_*.sql')): the file that follows file
\* `after` in the sorted list of the n files written (after = 0: the first).
NextSorted(n, after) ==
    SmallestAfter(1, n, IF after = 0 THEN <<>> ELSE BatchFileNames[after])

\* The numbers of batches the model writes to files.
BatchFileCounts == (0..SmallBatchFiles) \cup {Power(10, PadWidth) - 1, MaxBatchFiles}

InitFiles ==
    /\ file_count = 0
    /\ position = 0
    /\ current = 0
    /\ fpc = "save"

\* for i, batch_sql in enumerate(sql_batches): one file per batch, named by
\* i + 1.
SaveBatchFiles ==
    /\ fpc = "save"
    /\ \E n \in BatchFileCounts : file_count' = n
    /\ fpc' = "saved"
    /\ UNCHANGED <<position, current>>
    /\ UNCHANGED <<genVars, dateVars, batchVars, statusVars, instanceVars, issueVars>>

\* import_member_batches.main: one iteration of
\* `for i, batch_file in enumerate(batch_files, 1)`.
ProcessBatchFile ==
    /\ fpc = "saved"
    /\ position < file_count
    /\ position' = position + 1
    /\ current' = NextSorted(file_count, current)
    /\ UNCHANGED <<file_count, fpc>>
    /\ UNCHANGED <<genVars, dateVars, batchVars, statusVars, instanceVars, issueVars>>

\* The loop is exhausted: the summary is printed.
ImportSummary ==
    /\ fpc = "saved"
    /\ position = file_count
    /\ fpc' = "summary"
    /\ UNCHANGED <<file_count, position, current>>
    /\ UNCHANGED <<genVars, dateVars, batchVars, statusVars, instanceVars, issueVars>>

(***************************************************************************)
(* .github/scripts/create_github_issues.py: GitHubIssueCreator             *)
(***************************************************************************)
\* The value create_issue returns in dry-run mode.
DryRunIssue == [number |-> 0, html_url |-> "https://github.com/example/dry-run"]

\* Python's None, returned when the request fails.
None == [number |-> -1, html_url |-> "None"]

\* response.json() of a request that succeeded: the issue as GitHub made it.
LiveIssue(number) ==
    [number |-> number,
     html_url |-> "https://github.com/markus41/nabip-association-ma/issues/" \o ToString(number)]

\* Mutant: create_issue does not look at dry_run.
create_issue_IgnoresDryRun(dry, ok, number) ==
    [posted |-> TRUE, issue |-> IF ok THEN LiveIssue(number) ELSE None]

\* create_issue: in dry-run mode the placeholder is returned and nothing is
\* sent; otherwise the request is posted and gives the issue, or None when
\* a RequestException is caught.  ok tells whether the request succeeds,
\* number is the number GitHub gives the issue.
create_issue(dry, ok, number) ==
    IF dry THEN [posted |-> FALSE, issue |-> DryRunIssue]
    ELSE [posted |-> TRUE, issue |-> IF ok THEN LiveIssue(number) ELSE None]

\* The outcomes of the request that the model tells apart.
Outcomes(dry) == IF dry THEN {TRUE} ELSE BOOLEAN

\* The number GitHub gives the next issue of the repository.
NextNumber == 1 + Cardinality({k \in 1..Len(posts) : posts[k].ok})

\* The requests.post calls after a create_issue call for sub-issue `sub`
\* (0: the feature request itself) of the feature with identifier `id`.
PostsAfter(r, id, sub, ok) ==
    IF r.posted THEN Append(posts, [feature |-> id, sub |-> sub, ok |-> ok]) ELSE posts

\* The identifiers of n feature requests: all different, or all the same.
FeatureIds(n) == {[k \in 1..n |-> k], [k \in 1..n |-> 1]}

\* The feature requests of the JSON file: an identifier and a number of
\* sub-issues each.
FeatureData ==
    UNION {{[k \in 1..n |-> [id |-> ids[k], sub_issues |-> subs[k]]] :
               ids \in FeatureIds(n), subs \in [1..n -> 0..MaxSubIssues]} : n \in 0..MaxFeatures}

\* What the operator may type at the prompt.
Answers == {"yes", "YES", "no", "y", ""}

\* Mutant: the answer is compared as typed.
LowerAnswer_AsTyped(answer) == answer

\* str.lower() on the answers.
LowerAnswer(answer) == IF answer \in {"yes", "YES", "Yes"} THEN "yes" ELSE answer

\* The local variable confirm before input() has returned.
Unbound == "<unbound>"

\* The script has not constructed its GitHubIssueCreator yet; dry_run has
\* the default of the parameter.
InitIssues ==
    /\ dry_run = FALSE
    /\ created_issues = <<>>
    /\ features = <<>>
    /\ feature_idx = 0
    /\ sub_idx = 0
    /\ posts = <<>>
    /\ returned = <<>>
    /\ prompts = 0
    /\ confirm = Unbound
    /\ direct_calls = 0
    /\ ipc = "start"

\* main(): GitHubIssueCreator(token, repo, dry_run = args.dry_run)
ConstructCreator ==
    /\ ipc = "start"
    /\ dry_run' \in BOOLEAN
    /\ created_issues' = <<>>
    /\ ipc' = "init"
    /\ UNCHANGED <<features, feature_idx, sub_idx, posts, returned, prompts, confirm, direct_calls>>
    /\ UNCHANGED <<genVars, dateVars, batchVars, statusVars, fileVars, instanceVars>>

\* A caller calls creator.create_issue(title, body, labels) itself.
CreateIssueDirect ==
    /\ ipc = "init"
    /\ direct_calls < MaxDirectCalls
    /\ \E ok \in Outcomes(dry_run) :
          LET r == create_issue(dry_run, ok, NextNumber)
          IN  /\ posts' = PostsAfter(r, 0, 0, ok)
              /\ returned' = Append(returned, r.issue)
    /\ direct_calls' = direct_calls + 1
    /\ UNCHANGED <<dry_run, created_issues, features, feature_idx, sub_idx, prompts, confirm, ipc>>
    /\ UNCHANGED <<genVars, dateVars, batchVars, statusVars, fileVars, instanceVars>>

\* create_all_from_json: the file is read and the header printed; in live
\* mode the prompt is shown.
LoadJson ==
    /\ ipc = "init"
    /\ \E data \in FeatureData : features' = data
    /\ IF dry_run
       THEN ipc' = "features" /\ prompts' = prompts
       ELSE ipc' = "confirm" /\ prompts' = prompts + 1
    /\ UNCHANGED <<dry_run, created_issues, feature_idx, sub_idx, posts, returned, confirm, direct_calls>>
    /\ UNCHANGED <<genVars, dateVars, batchVars, statusVars, fileVars, instanceVars>>

\* create_all_from_json: the file is missing or is no JSON: sys.exit(1).
LoadJsonFails ==
    /\ ipc = "init"
    /\ ipc' = "exit_1"
    /\ UNCHANGED <<dry_run, created_issues, features, feature_idx, sub_idx, posts, returned,
                   prompts, confirm, direct_calls>>
    /\ UNCHANGED <<genVars, dateVars, batchVars, statusVars, fileVars, instanceVars>>

\* input() returns the operator's answer: anything but 'yes' ends the run.
ReadAnswer ==
    /\ ipc = "confirm"
    /\ \E answer \in Answers :
          /\ confirm' = answer
          /\ ipc' = IF LowerAnswer(answer) # "yes" THEN "cancelled" ELSE "features"
    /\ UNCHANGED <<dry_run, created_issues, features, feature_idx, sub_idx, posts, returned,
                   prompts, direct_calls>>
    /\ UNCHANGED <<genVars, dateVars, batchVars, statusVars, fileVars, instanceVars>>

\* Mutant: the feature goes on to its sub-issues whatever create_issue gave.
ParentCreated_Always(fr_issue) == TRUE

\* `if not fr_issue` is not taken: create_issue gave an issue, not None.
ParentCreated(fr_issue) == fr_issue # None

\* create_feature_request_with_sub_issues, up to the first sub-issue: the
\* feature request is created; when that fails the feature is left.
CreateFeatureRequest ==
    /\ ipc = "features"
    /\ feature_idx < Len(features)
    /\ \E ok \in Outcomes(dry_run) :
          LET feature == features[feature_idx + 1]
              r       == create_issue(dry_run, ok, NextNumber)
          IN  /\ posts' = PostsAfter(r, feature.id, 0, ok)
              /\ returned' = Append(returned, r.issue)
              /\ IF ~ParentCreated(r.issue)
                 THEN /\ feature_idx' = feature_idx + 1
                      /\ UNCHANGED <<created_issues, sub_idx, ipc>>
                 ELSE /\ created_issues' =
                             (feature.id :> [feature_request |-> r.issue, sub_issues |-> <<>>])
                             @@ created_issues
                      /\ sub_idx' = 0
                      /\ ipc' = "sub_issues"
                      /\ UNCHANGED feature_idx
    /\ UNCHANGED <<dry_run, features, prompts, confirm, direct_calls>>
    /\ UNCHANGED <<genVars, dateVars, batchVars, statusVars, fileVars, instanceVars>>

\* One iteration of `for sub in feature["sub_issues"]`.
CreateSubIssue ==
    /\ ipc = "sub_issues"
    /\ sub_idx < features[feature_idx + 1].sub_issues
    /\ \E ok \in Outcomes(dry_run) :
          LET feature == features[feature_idx + 1]
              r       == create_issue(dry_run, ok, NextNumber)
          IN  /\ posts' = PostsAfter(r, feature.id, sub_idx + 1, ok)
              /\ returned' = Append(returned, r.issue)
              /\ created_issues' =
                    IF r.issue = None THEN created_issues
                    ELSE [created_issues EXCEPT ![feature.id].sub_issues = Append(@, r.issue)]
    /\ sub_idx' = sub_idx + 1
    /\ UNCHANGED <<dry_run, features, feature_idx, prompts, confirm, direct_calls, ipc>>
    /\ UNCHANGED <<genVars, dateVars, batchVars, statusVars, fileVars, instanceVars>>

\* The sub-issue loop is exhausted: the feature is complete.
CompleteFeature ==
    /\ ipc = "sub_issues"
    /\ sub_idx = features[feature_idx + 1].sub_issues
    /\ feature_idx' = feature_idx + 1
    /\ ipc' = "features"
    /\ UNCHANGED <<dry_run, created_issues, features, sub_idx, posts, returned, prompts, confirm, direct_calls>>
    /\ UNCHANGED <<genVars, dateVars, batchVars, statusVars, fileVars, instanceVars>>

\* The feature loop is exhausted: the summary is printed.
PrintSummary ==
    /\ ipc = "features"
    /\ feature_idx = Len(features)
    /\ ipc' = "done"
    /\ UNCHANGED <<dry_run, created_issues, features, feature_idx, sub_idx, posts, returned,
                   prompts, confirm, direct_calls>>
    /\ UNCHANGED <<genVars, dateVars, batchVars, statusVars, fileVars, instanceVars>>

(***************************************************************************)
(* Spec: main() constructs a generator and runs generate_members once.     *)
(***************************************************************************)
Init ==
    /\ InitGen
    /\ InitDates
    /\ InitMemberDates
    /\ InitBatch
    /\ InitStatus
    /\ InitFiles
    /\ InitInstances
    /\ InitIssues

Next ==
    \/ GenerateMembersStart
    \/ GenerateMembersIteration
    \/ GenerateMembersReturn

Spec == Init /\ [][Next]_vars

(***************************************************************************)
(* SpecEmail: generate_email is called directly on one generator.          *)
(***************************************************************************)
NextEmail == GenerateEmail

SpecEmail == Init /\ [][NextEmail]_vars

(***************************************************************************)
(* SpecInstances: generate_email is called on two generators.              *)
(***************************************************************************)
NextInstances ==
    \/ GenerateEmail
    \/ ConstructOther
    \/ GenerateEmailOther

SpecInstances == Init /\ [][NextInstances]_vars

(***************************************************************************)
(* SpecDates: the date fields of generated records.                        *)
(***************************************************************************)
NextDates ==
    \/ GenerateDates
    \/ NextIteration

SpecDates == Init /\ [][NextDates]_vars

(***************************************************************************)
(* SpecMemberDates: the date fields of generate_member records.            *)
(***************************************************************************)
NextMemberDates ==
    \/ GenerateMemberDates
    \/ NextMember

SpecMemberDates == Init /\ [][NextMemberDates]_vars

(***************************************************************************)
(* SpecStatus: the status draw of generate_members iterations.             *)
(***************************************************************************)
NextStatus == GenerateStatus

SpecStatus == Init /\ [][NextStatus]_vars

(***************************************************************************)
(* SpecFiles: batch files are written, then read in sorted order.          *)
(***************************************************************************)
NextFiles ==
    \/ SaveBatchFiles
    \/ ProcessBatchFile
    \/ ImportSummary

SpecFiles == Init /\ [][NextFiles]_vars

(***************************************************************************)
(* SpecIssues: a GitHubIssueCreator creates issues.                        *)
(***************************************************************************)
NextIssues ==
    \/ ConstructCreator
    \/ CreateIssueDirect
    \/ LoadJson
    \/ LoadJsonFails
    \/ ReadAnswer
    \/ CreateFeatureRequest
    \/ CreateSubIssue
    \/ CompleteFeature
    \/ PrintSummary

SpecIssues == Init /\ [][NextIssues]_vars

(***************************************************************************)
(* SpecBatch: SQL text is written or generated, and split into batches.    *)
(***************************************************************************)
NextBatch ==
    \/ WriteStatement
    \/ WriteTuple
    \/ WriteDone
    \/ SplitText
    \/ ExportToSql
    \/ ImportFile
    \/ SqlStart
    \/ SqlMember
    \/ SqlBatches

SpecBatch == Init /\ [][NextBatch]_vars

(***************************************************************************)
(* Properties.                                                             *)
(***************************************************************************)
Emails(ms) == {ms[j].email : j \in 1..Len(ms)}

\* C1: for every N and every non-empty chapter list, generate_members(N)
\* returns exactly N records whose emails are pairwise distinct.
C1_DistinctKeys ==
    (pc = "done" /\ chapters # <<>>) =>
        /\ Len(members) = total_count
        /\ Cardinality(Emails(members)) = total_count
        /\ \A j, k \in 1..Len(members) : j # k => members[j].email # members[k].email

\* C1 witness: a full run in which a sampled name pair met its own domain twice.
C1_Witness ==
    /\ pc = "done"
    /\ chapters # <<>>
    /\ total_count >= 7
    /\ \E j \in 1..Len(members) : members[j].email = "james.smith1@gmail.com"

\* The key generate_email builds for suffix k (k = 0: no suffix).
EmailKey(base, k, domain) ==
    IF k = 0 THEN base \o "@" \o domain ELSE base \o ToString(k) \o "@" \o domain

\* C2: generate_email returns 'first.last@d' when that key is not yet
\* issued, and otherwise 'first.last<k>@d' for the smallest k >= 1 whose key
\* is not yet issued; the key is new, and it is built from the name pair of
\* the call.
C2_DeterministicSuffix ==
    calls > 0 =>
        LET base   == EmailBase(last_call.first_name, last_call.last_name)
            domain == EmailDomain(last_call.domain_num)
        IN  /\ last_call.email \notin last_call.before
            /\ IF EmailKey(base, 0, domain) \notin last_call.before
               THEN last_call.email = EmailKey(base, 0, domain)
               ELSE \E k \in 1..(Cardinality(last_call.before) + 1) :
                       /\ last_call.email = EmailKey(base, k, domain)
                       /\ \A j \in 1..(k - 1) : EmailKey(base, j, domain) \in last_call.before

\* C2 witness: the name pair James Smith is used twice on gmail.com after the
\* key james.smith1@gmail.com was issued to James Smith1: the call returns
\* suffix 2.
C2_Witness ==
    /\ calls > 0
    /\ last_call.last_name = "Smith"
    /\ last_call.email = "james.smith2@gmail.com"
    /\ "james.smith@gmail.com" \in last_call.before

\* The attempts bound of C3: any bound below the number of calls made.
CapacityBound == MaxCalls - 1

\* C3: one call of generate_email tries at most a fixed number of candidate
\* keys, and fails with CapacityExhausted when none of them is free.
C3_BoundedAttempts ==
    \/ last_call.tried <= CapacityBound
    \/ pc = "CapacityExhausted"

\* C4 (as claimed): member_since <= renewal_date, the difference is k * 365
\* days with k >= 1, and renewal_date - 365 days is earlier than now.
C4_RenewalWithinPeriod_Claimed ==
    dates.made =>
        /\ dates.member_since <= dates.renewal_date
        /\ \E k \in 1..(MaxYearsAgo + 2) :
              dates.renewal_date - dates.member_since = k * RenewalPeriod
        /\ strptime(dates.renewal_date) - timedelta(RenewalPeriod) < dates.now_renewal

\* C4 (amended): member_since <= renewal_date, the difference is k * 365
\* days with k >= 1, and renewal_date - 365 days is not later than now; it
\* equals now only for a record generated at midnight exactly with a zero
\* offset.
C4_RenewalWithinPeriod ==
    dates.made =>
        /\ dates.member_since <= dates.renewal_date
        /\ \E k \in 1..(MaxYearsAgo + 2) :
              dates.renewal_date - dates.member_since = k * RenewalPeriod
        /\ strptime(dates.renewal_date) - timedelta(RenewalPeriod) <= dates.now_renewal
        /\ strptime(dates.renewal_date) - timedelta(RenewalPeriod) = dates.now_renewal =>
              /\ dates.years_ago = 0
              /\ dates.months_ago = 0
              /\ dates.now_since = dates.now_renewal
              /\ dates.now_renewal % TicksPerDay = 0

\* C4 witness: an old member_since, advanced by several periods.
C4_Witness ==
    /\ dates.made
    /\ dates.years_ago = MaxYearsAgo
    /\ dates.renewal_date - dates.member_since >= 2 * RenewalPeriod

\* The smallest date member_since + k * 365 (k >= 1) that is not before today.
SmallestDue(member_since, today) ==
    LET k == CHOOSE n \in 1..(MaxYearsAgo + 2) :
                 /\ member_since + n * RenewalPeriod >= today
                 /\ \A m \in 1..(n - 1) : member_since + m * RenewalPeriod < today
    IN  member_since + k * RenewalPeriod

\* C5: generate_renewal_date returns the smallest date of the progression
\* member_since + k * 365 days (k >= 1) that is not in the past on the day of
\* generation; a candidate equal to today is returned.
C5_SmallestNotPast ==
    dates.made =>
        dates.renewal_date = SmallestDue(dates.member_since, strftime(dates.now_renewal))

\* C6: total_ce_credits lies in [0, 150] for every member_since that
\* generate_member_since_date produces, and for a fixed rate it does not
\* decrease when the tenure grows by a day.
C6_CreditsBoundedMonotone ==
    dates.made =>
        LET days == TenureDays(dates.member_since, dates.now_credits)
        IN  /\ 0 <= dates.total_ce_credits
            /\ dates.total_ce_credits <= CreditCap * 100
            /\ days >= 0
            /\ dates.total_ce_credits <= CreditsForTenure(days + 1, dates.avg_per_year)
            /\ days > 0 => CreditsForTenure(days - 1, dates.avg_per_year) <= dates.total_ce_credits

\* C6 witness: a tenure long enough for the cap to apply.
C6_Witness ==
    /\ dates.made
    /\ dates.years_ago = MaxYearsAgo
    /\ dates.avg_per_year = MaxCreditsPerYear
    /\ dates.total_ce_credits = CreditCap * 100

(***************************************************************************)
(* Reading a statement as SQL does: quotes and nesting are honoured.       *)
(***************************************************************************)
\* The n-th smallest element of a set of numbers.
Nth(S, n) == CHOOSE k \in S : Cardinality({j \in S : j <= k}) = n

\* The value-tuples of the statement `text`: the parenthesised groups after
\* VALUES that are not inside a quoted string or another group.
StatementTuples(text) ==
    LET v == Find(text, 1, KW_VALUES)
        InQuote(k) == Cardinality({j \in (v + 1)..(k - 1) : text[j] = "'"}) % 2 = 1
        Opens(k)   == {j \in (v + 1)..k : text[j] = "(" /\ ~InQuote(j)}
        Closes(k)  == {j \in (v + 1)..k : text[j] = ")" /\ ~InQuote(j)}
        Depth(k)   == Cardinality(Opens(k)) - Cardinality(Closes(k))
        Ends       == {k \in Closes(Len(text)) : Depth(k) = 0}
        Starts     == {k \in Opens(Len(text)) : Depth(k) = 1 /\ \E e \in Ends : e > k}
    IN  IF v = 0 THEN <<>>
        ELSE [n \in 1..Cardinality(Starts) |->
                 LET a == Nth(Starts, n)
                 IN  SubSeq(text, a, Least({e \in Ends : e > a}))]

\* The number of values of a value-tuple: its commas outside quotes, plus one.
CountValues(tuple) ==
    1 + Cardinality({k \in 1..Len(tuple) :
                        /\ tuple[k] = ","
                        /\ Cardinality({j \in 1..(k - 1) : tuple[j] = "'"}) % 2 = 0})

RECURSIVE Concat(_)
Concat(seqs) == IF seqs = <<>> THEN <<>> ELSE Head(seqs) \o Concat(Tail(seqs))

\* The batches written for one table, in output order.
BatchesFor(table) ==
    LET S == {b \in 1..Len(batches) : Len(batches[b]) >= 2 /\ batches[b][2] = table}
    IN  [n \in 1..Cardinality(S) |-> batches[Nth(S, n)]]

\* The value-tuples of the batches written for one table, batch after batch.
TuplesFor(table) ==
    LET bs == BatchesFor(table)
    IN  Concat([n \in 1..Len(bs) |-> StatementTuples(bs[n])])

\* A text without its white space.
NoSpace(text) ==
    LET S == {k \in 1..Len(text) : ~IsSpace(text[k])}
    IN  [n \in 1..Cardinality(S) |-> text[Nth(S, n)]]

\* The header a statement of the text was written with.
WrittenHeader(st) == IF bpc = "imported" THEN ExportHeader ELSE RawHeader(st)

Split == bpc \in {"split", "imported"}

\* Every statement of the text ends with its ';'.
AllTerminated == \A s \in 1..Len(statements) : statements[s].terminated

\* No tuple of the text holds a parenthesis inside a quoted value.
NoParenInValues ==
    \A s \in 1..Len(statements) : \A j \in 1..Len(statements[s].tuples) :
        Cardinality({k \in 1..Len(statements[s].tuples[j]) : statements[s].tuples[j][k] = "("}) = 1

\* C7: no batch returned by split_into_batches holds more than batch_size
\* value-tuples, and of the batches of one statement only the last may hold
\* fewer, also for statements without a column list (stated for texts whose
\* statements are all terminated and whose values hold no parentheses).
C7_BatchSizeBound ==
    (Split /\ AllTerminated /\ NoParenInValues) =>
        \A s \in 1..Len(statements) :
            LET bs == BatchesFor(statements[s].table)
            IN  \A n \in 1..Len(bs) :
                    /\ Len(StatementTuples(bs[n])) <= batch_size
                    /\ n < Len(bs) => Len(StatementTuples(bs[n])) = batch_size

\* C8: the value-tuples of the batches of a statement, in batch order, are
\* the statement's tuple sequence (stated for texts whose statements are
\* all terminated); and the tuples of the batches of generate_members_sql
\* are the tuples of the generated records.
C8_ConcatenationReproduces ==
    /\ (Split /\ AllTerminated) => \A s \in 1..Len(statements) :
                    TuplesFor(statements[s].table) = statements[s].tuples
    /\ bpc = "generated" =>
          Concat([n \in 1..Len(batches) |-> StatementTuples(batches[n])])
              = [j \in 1..Len(records) |-> SqlValue(records[j])]

\* C9: every value-tuple of the text, also one whose quoted values hold
\* '(' , ')' or ',', is in exactly one batch, whole (stated for texts whose
\* statements are all terminated); every tuple written by
\* export_to_sql comes out of read_sql_file and split_into_batches with its
\* 23 values.
C9_TuplesAtomic ==
    (Split /\ AllTerminated) =>
        \A s \in 1..Len(statements) : \A j \in 1..Len(statements[s].tuples) :
            LET tuple == statements[s].tuples[j]
                Holds(b) == \E n \in 1..Len(StatementTuples(batches[b])) :
                                StatementTuples(batches[b])[n] = tuple
            IN  /\ Cardinality({b \in 1..Len(batches) : Holds(b)}) = 1
                /\ bpc = "imported" => CountValues(tuple) = 23

\* The statements of the round-trip scenario.
ScenarioStatements ==
    <<[table |-> "t", columns |-> TRUE, terminated |-> TRUE,
       tuples |-> <<RawTuple("plain", 1), RawTuple("plain", 2), RawTuple("plain", 3)>>]>>

\* C10: every batch is the header of its statement (same table, same column
\* list), then tuples of that statement, then one ';' (white space apart),
\* stated for texts whose statements are all terminated;
\* the scenario text with batch_size = 2 gives the two batches of (1,'x'),
\* (2,'y') and of (3,'z').
C10_SelfContained ==
    (Split /\ AllTerminated) =>
        /\ \A b \in 1..Len(batches) :
              \E s \in 1..Len(statements) :
                 \E lo \in 1..Len(statements[s].tuples) :
                    \E hi \in lo..Len(statements[s].tuples) :
                       NoSpace(batches[b])
                           = NoSpace(WrittenHeader(statements[s])
                                     \o Join(SubSeq(statements[s].tuples, lo, hi), <<",">>)
                                     \o <<";">>)
        /\ (bpc = "split" /\ statements = ScenarioStatements /\ batch_size = 2) =>
              /\ Len(batches) = 2
              /\ NoSpace(batches[1]) = NoSpace(RawHeader(statements[1])
                                               \o Join(SubSeq(statements[1].tuples, 1, 2), <<",">>) \o <<";">>)
              /\ NoSpace(batches[2]) = NoSpace(RawHeader(statements[1])
                                               \o statements[1].tuples[3] \o <<";">>)

(***************************************************************************)
(* Several statements in one text.                                         *)
(***************************************************************************)
\* The numbers of the value-tuples that begin in `text` (a tuple of the
\* hand-written texts begins with '(' and its number).
TupleIds(text) ==
    {text[k + 1] : k \in {j \in 1..(Len(text) - 1) :
                             /\ text[j] = "("
                             /\ text[j + 1] \in {ToString(n) : n \in 1..(MaxTuples + 1)}}}

StartsWith(text, prefix) ==
    Len(text) >= Len(prefix) /\ SubSeq(text, 1, Len(prefix)) = prefix

\* The statements whose header batch b is written under.
HeaderOwners(b) ==
    {s \in 1..Len(statements) : StartsWith(batches[b], RawHeader(statements[s]))}

\* C11: of a text of several INSERT statements every batch holds tuples of
\* exactly one statement, under that statement's header and no other, and
\* the batches of an earlier statement precede those of a later one.
C11_OneStatementPerBatch ==
    bpc = "split" =>
        /\ \A b \in 1..Len(batches) :
              /\ Cardinality({k \in 1..Len(batches[b]) : batches[b][k] = KW_INSERT}) = 1
              /\ \E s \in HeaderOwners(b) :
                    TupleIds(batches[b]) \subseteq TupleIds(RawStatement(statements[s]))
        /\ \A b1 \in 1..Len(batches) : \A b2 \in b1..Len(batches) :
              \A s1 \in HeaderOwners(b1) : \A s2 \in HeaderOwners(b2) : s1 <= s2

\* split_into_batches returns the list of batches and nothing else: it
\* raises no error, prints nothing and counts nothing.  The statements (by
\* position in the text) it reports as not parsed.
ParseErrors(sql_content) == {}

\* INSERT INTO table (columns) VALUES (tuple),... ;
ExpectedShape(st) == st.columns /\ st.terminated /\ st.tuples # <<>>

\* C12: every statement of the text that has not the expected shape is
\* reported as a ParseError, and no statement is absent from the batches
\* without being reported.
C12_NoSilentLoss ==
    bpc = "split" =>
        \A s \in 1..Len(statements) :
            /\ ~ExpectedShape(statements[s]) => s \in ParseErrors(sql_file)
            /\ BatchesFor(statements[s].table) = <<>> => s \in ParseErrors(sql_file)

(***************************************************************************)
(* generate_members: the pools and the draws.                              *)
(***************************************************************************)
\* generate_members(N), N >= 1, runs on a generator with no chapters.
EmptyPoolRun == chapters = <<>> /\ total_count >= 1 /\ pc # "idle"

Width(st) == Cardinality({u \in 0..(StatusResolution - 1) : StatusOf(u) = st})

\* p hundredths of the draws.
Hundredths(p) == (p * StatusResolution) \div 100

\* C14: the status is the image of the draw u under the table
\* u < 0.90 active, 0.90 <= u < 0.95 lapsed, 0.95 <= u < 0.98 inactive,
\* 0.98 <= u pending; each draw has exactly one status, and the four
\* intervals have widths 0.90, 0.05, 0.03, 0.02, which sum to 1.
C14_StatusTable ==
    status_draw.made =>
        LET u  == status_draw.status_rand
            st == status_draw.status
        IN  /\ st \in {"active", "lapsed", "inactive", "pending"}
            /\ st = "active"   <=> u < Hundredths(90)
            /\ st = "lapsed"   <=> (Hundredths(90) <= u /\ u < Hundredths(95))
            /\ st = "inactive" <=> (Hundredths(95) <= u /\ u < Hundredths(98))
            /\ st = "pending"  <=> Hundredths(98) <= u
            /\ Width("active") = Hundredths(90)
            /\ Width("lapsed") = Hundredths(5)
            /\ Width("inactive") = Hundredths(3)
            /\ Width("pending") = Hundredths(2)
            /\ Width("active") + Width("lapsed") + Width("inactive") + Width("pending")
                   = StatusResolution

C14_Witness ==
    /\ status_draw.made
    /\ status_draw.status_rand = Hundredths(98)
    /\ status_draw.status = "pending"

\* The actual_member_count of the chapter with identifier id.
WeightOf(id) ==
    LET k == CHOOSE j \in 1..Len(chapters) : chapters[j].id = id
    IN  chapters[k].actual_member_count

\* C15: the chapter of a member is chosen with weights actual_member_count,
\* so that no member is put in a chapter of weight 0 while another chapter
\* has a positive weight.
C15_WeightedChapter ==
    \A j \in 1..Len(members) :
        TotalChapterCapacity(chapters) > 0 => WeightOf(members[j].chapter_id) > 0

Ceil(n, d) == (n + d - 1) \div d

\* C17: generate_members_sql(count, batch_size) returns count records and
\* ceil(count / batch_size) batches; batch b (counted from 0) holds the
\* tuples of records b*batch_size .. min((b+1)*batch_size, count) - 1 in
\* record order under the same INSERT header; every batch but the last
\* holds batch_size tuples and no batch is empty.
C17_RecordBatches ==
    bpc = "generated" =>
        /\ Len(records) = total_count
        /\ Len(batches) = Ceil(total_count, batch_size)
        /\ \A b \in 0..(Len(batches) - 1) :
              LET lo     == b * batch_size
                  hi     == Min((b + 1) * batch_size, total_count) - 1
                  tuples == StatementTuples(batches[b + 1])
              IN  /\ StartsWith(batches[b + 1], SqlHeader)
                  /\ Len(tuples) = hi - lo + 1
                  /\ \A k \in lo..hi : tuples[k - lo + 1] = SqlValue(records[k + 1])
                  /\ Len(tuples) >= 1
                  /\ b < Len(batches) - 1 => Len(tuples) = batch_size
                  /\ Cardinality({k \in 1..Len(batches[b + 1]) : batches[b + 1][k] = KW_INSERT}) = 1

C17_Witness ==
    /\ bpc = "generated"
    /\ total_count = 3
    /\ batch_size = 2
    /\ Len(batches) = 2
    /\ Len(StatementTuples(batches[2])) = 1

(***************************************************************************)
(* generate_email: the retry loop and the issued set.                      *)
(***************************************************************************)
\* C18: every generate_email call ends after testing at most
\* |generated_emails| + 1 candidate keys, the set taken as it was when the
\* call began.
C18_BoundedRetries ==
    calls >= 1 =>
        /\ last_call.tried >= 1
        /\ last_call.tried <= Cardinality(last_call.before) + 1

\* A call that needed every one of the |generated_emails| + 1 tests.
C18_Witness ==
    /\ calls >= 3
    /\ Cardinality(last_call.before) >= 2
    /\ last_call.tried = 3

\* One generate_email call on the first generator: one new key, the one it
\* returns; the keys issued before stay; the second generator is untouched.
CallStep ==
    /\ calls' = calls + 1
    /\ last_call'.email \notin generated_emails
    /\ generated_emails' = generated_emails \cup {last_call'.email}
    /\ other_generator' = other_generator

\* A step of the second generator: the set of the first stays as it is.
OtherStep ==
    /\ calls' = calls
    /\ generated_emails' = generated_emails
    /\ other_generator'.constructed
    /\ IF other_generator.constructed
       THEN /\ other_generator'.calls = other_generator.calls + 1
            /\ other_generator.generated_emails \subseteq other_generator'.generated_emails
       ELSE other_generator'.generated_emails = {} /\ other_generator'.calls = 0

\* C19: generated_emails holds exactly the keys returned so far: each call
\* adds the key it returns and nothing else, nothing is removed, the size of
\* the set is the number of calls; a new generator starts with an empty set
\* and the sets of two generators are not shared.
C19_IssuedSetFrame ==
    /\ [](/\ Cardinality(generated_emails) = calls
          /\ Cardinality(other_generator.generated_emails) = other_generator.calls
          /\ calls >= 1 => last_call.email \in generated_emails)
    /\ [][CallStep \/ OtherStep]_<<generated_emails, calls, other_generator>>

\* Both generators have issued the same key, each to its own set, and the
\* first has issued more.
C19_Witness ==
    /\ calls = 2
    /\ other_generator.calls = 1
    /\ other_generator.generated_emails \subseteq generated_emails
    /\ Cardinality(generated_emails) = 2

(***************************************************************************)
(* GitHubIssueCreator                                                      *)
(***************************************************************************)
\* C20: in dry-run mode no request is sent to the GitHub API, no
\* confirmation is asked, and every create_issue call returns the
\* placeholder issue with number 0.
C20_DryRunCreatesNothing ==
    dry_run =>
        /\ posts = <<>>
        /\ prompts = 0
        /\ ipc \notin {"confirm", "cancelled"}
        /\ \A k \in 1..Len(returned) : returned[k] = DryRunIssue /\ returned[k].number = 0

\* A dry run of create_all_from_json over two features with sub-issues,
\* after a direct create_issue call, has come to its summary.
C20_Witness ==
    /\ dry_run
    /\ ipc = "done"
    /\ direct_calls = 1
    /\ Len(features) = 2
    /\ Len(returned) >= 4

\* The requests of a run of create_all_from_json: those after the direct
\* create_issue calls.
RunPosts == SubSeq(posts, Len(posts) - Len(SelectSeq(posts, LAMBDA p : p.feature # 0)) + 1, Len(posts))

\* The position in the JSON file of the feature that request n of the run
\* belongs to: the number of feature-request creations up to it.
FeatureOf(q, n) == Cardinality({j \in 1..n : q[j].sub = 0})

\* The requests of the run made for the feature at position k.
RequestsFor(q, k) == {n \in 1..Len(q) : FeatureOf(q, n) = k}

\* C21: a sub-issue is attempted only after its feature request was created
\* with success, directly before it or before its preceding sub-issue; a
\* feature request that failed is followed by no sub-issue and puts no entry
\* in created_issues; and a live run that came to its summary has attempted
\* every sub-issue of every feature whose request succeeded, whatever the
\* outcomes of the sub-issues before it.
C21_ParentBeforeSubIssues ==
    LET q == RunPosts
    IN  /\ \A n \in 1..Len(q) :
              q[n].sub > 0 =>
                  /\ n > 1
                  /\ q[n - 1].feature = q[n].feature
                  /\ q[n].sub = q[n - 1].sub + 1
                  /\ q[n - 1].sub = 0 => q[n - 1].ok
        /\ ipc = "sub_issues" =>
              /\ features[feature_idx + 1].id \in DOMAIN created_issues
              /\ created_issues[features[feature_idx + 1].id].feature_request # None
        /\ ~dry_run =>
              DOMAIN created_issues = {q[n].feature : n \in {j \in 1..Len(q) : q[j].sub = 0 /\ q[j].ok}}
        /\ (~dry_run /\ ipc = "done") =>
              \A k \in 1..Len(features) :
                  \E p \in RequestsFor(q, k) :
                      /\ q[p].sub = 0
                      /\ q[p].feature = features[k].id
                      /\ Cardinality(RequestsFor(q, k)) =
                            IF q[p].ok THEN 1 + features[k].sub_issues ELSE 1

\* A live run has come to its summary: the request of one feature with
\* sub-issues failed, and in another feature a sub-issue failed and the
\* sub-issue after it was created.
C21_Witness ==
    /\ ~dry_run
    /\ ipc = "done"
    /\ \E n \in 1..Len(posts) :
          posts[n].feature # 0 /\ posts[n].sub = 0 /\ ~posts[n].ok
    /\ \E k \in 1..Len(features) : features[k].sub_issues > 0 /\ features[k].id \notin DOMAIN created_issues
    /\ \E n \in 1..Len(posts) :
          /\ n < Len(posts)
          /\ posts[n].sub > 0 /\ ~posts[n].ok
          /\ posts[n + 1].sub = posts[n].sub + 1 /\ posts[n + 1].ok

\* The answers that are 'yes' whatever the case of their letters.
YesAnswers == {"yes", "YES", "Yes"}

\* C22: in live mode, as long as no answer has been read, and after an
\* answer other than 'yes' (in any case of letters), create_all_from_json
\* has called create_issue for no feature and created_issues is empty; the
\* run is cancelled exactly on the answers that are not 'yes'; and the
\* prompt has been shown once when the run goes on.
C22_ConfirmBeforeCreate ==
    ~dry_run =>
        /\ confirm \notin YesAnswers =>
              /\ RunPosts = <<>>
              /\ Len(returned) = direct_calls
              /\ created_issues = <<>>
              /\ ipc \in {"start", "init", "confirm", "cancelled", "exit_1"}
        /\ ipc = "cancelled" <=> confirm \notin YesAnswers \cup {Unbound}
        /\ ipc \in {"features", "sub_issues", "done"} => confirm \in YesAnswers /\ prompts = 1

\* A live run that was answered YES has created issues and come to its
\* summary.
C22_Witness ==
    /\ ~dry_run
    /\ confirm = "YES"
    /\ ipc = "done"
    /\ \E n \in 1..Len(RunPosts) : RunPosts[n].ok
    /\ created_issues # <<>>

(***************************************************************************)
(* generate_members_for_existing_schema.py: generate_member                *)
(***************************************************************************)
\* The first candidates of two records with different indexes differ,
\* whatever their names: indexes of one and of two digits are compared.
FirstCandidatesDistinct ==
    \A f1 \in FIRST_NAMES, f2 \in FIRST_NAMES, l1 \in LAST_NAMES, l2 \in LAST_NAMES :
        \A m \in 0..MaxIndex, n \in 0..MaxIndex :
            m # n => MemberStem(f1, l1, m) \o "@example.com" # MemberStem(f2, l2, n) \o "@example.com"

\* C23: in generate_members_sql every record has the first candidate of its
\* index as email (the retry loop is not entered), the emails of the records
\* are pairwise different, and first candidates of different indexes differ.
C23_FirstCandidateUnique ==
    /\ \A j \in 1..Len(records) :
          records[j].email =
              MemberStem(records[j].first_name, records[j].last_name, j - 1) \o "@example.com"
    /\ bpc \in {"generate", "generated"} =>
          /\ Cardinality({records[j].email : j \in 1..Len(records)}) = Len(records)
          /\ existing_emails = {records[j].email : j \in 1..Len(records)}
    /\ FirstCandidatesDistinct

\* generate_members_sql has returned records of which two have the same
\* first and last name.
C23_Witness ==
    /\ bpc = "generated"
    /\ \E j \in 1..Len(records), k \in 1..Len(records) :
          /\ j < k
          /\ records[j].first_name = records[k].first_name
          /\ records[j].last_name = records[k].last_name

\* C24: every record of generate_member has joined_date strictly before
\* expiry_date, at least 60 days apart; joined_date is 30 to 3650 days
\* before its clock reading and expiry_date 30 to 365 days after its own,
\* so the membership has started and has not expired at either reading
\* (the clock does not run backwards between the two readings).
C24_JoinedBeforeExpiry ==
    member_dates.made =>
        /\ member_dates.joined_date < member_dates.expiry_date
        /\ member_dates.expiry_date - member_dates.joined_date >= 60 * TicksPerDay
        /\ member_dates.now_joined - member_dates.joined_date >= 30 * TicksPerDay
        /\ member_dates.now_joined - member_dates.joined_date <= 3650 * TicksPerDay
        /\ member_dates.expiry_date - member_dates.now_expiry >= 30 * TicksPerDay
        /\ member_dates.expiry_date - member_dates.now_expiry <= 365 * TicksPerDay
        /\ member_dates.joined_date < member_dates.now_joined
        /\ member_dates.joined_date < member_dates.now_expiry
        /\ member_dates.expiry_date > member_dates.now_expiry
        /\ member_dates.expiry_date > member_dates.now_joined

\* A record with the smallest draws and one clock reading: joined_date and
\* expiry_date are 60 days apart exactly.
C24_Witness ==
    /\ member_dates.made
    /\ member_dates.days_member = 30
    /\ member_dates.expiry_days = 30
    /\ member_dates.now_joined = member_dates.now_expiry
    /\ member_dates.expiry_date - member_dates.joined_date = 60 * TicksPerDay

=============================================================================
